---- MODULE Spec2Model ----
(***************************************************************************)
(* A model of the OIS daily agent: main() of ois_daily_agent.py, the sheet *)
(* parser and text formatter of BOEOISFetcher and the HTML formatter and   *)
(* send_email of EmailSender.                                              *)
(*                                                                         *)
(* Values.  A Python value is a record [t, v]: t is its type ("none",      *)
(* "num", "date", "text", "delta" for a timedelta) and v an integer.       *)
(* Rates are counted in hundredths of a percentage point, so that          *)
(* (latest - previous) * 100 is counted in hundredths of a basis point.    *)
(* Dates are day numbers.  Column indices are 0-based as in the source; a  *)
(* row r holds the cell of column idx at r[idx + 1].                       *)
(***************************************************************************)
EXTENDS Integers, Sequences, FiniteSets, TLC

VARIABLES
    sheet,         \* the worksheet the download holds: header (row 4), rows (row 6 on)
    download,      \* what requests, ZipFile and openpyxl did, "pending" before
    pc,            \* main()'s position
    data, error,   \* main()'s locals of those names
    cols,          \* col_2yr, col_5yr, col_10yr when the header scan ended
    data_rows,     \* data_rows after the sort (<<>> when not reached)
    text_summary,  \* the lines of the text summary (<<>> before)
    email_sender,  \* the EmailSender's configuration
    html_body,     \* the rows of the HTML table (<<>> before)
    send_calls,    \* calls of send_email so far
    exit_status    \* <<the process's exit status>>, <<>> while it runs

vars == <<sheet, download, pc, data, error, cols, data_rows, text_summary,
          email_sender, html_body, send_calls, exit_status>>

(* ------------------------------ bounds --------------------------------- *)

MaxCols == 4
MaxRows == 4
MaxDate == 3
MaxRate == 1

(* ------------------------------ values --------------------------------- *)

None == [t |-> "none", v |-> 0]
Num(n) == [t |-> "num", v |-> n]
Date(d) == [t |-> "date", v |-> d]
Text(n) == [t |-> "text", v |-> n]
Delta(n) == [t |-> "delta", v |-> n]

Tenors == <<"2yr", "5yr", "10yr">>
TenorSet == {"2yr", "5yr", "10yr"}

\* value == 2: Python's == of a cell with an int literal holds for a number of
\* that value only (a str "2", None or a datetime is never equal to 2).
PyEq(value, n) == value.t = "num" /\ value.v = n

\* "if date_val is not None": any non-blank first cell
IsNotBlank(value) == value # None

\* isinstance(date_val, datetime)
IsDatetime(value) == value.t = "date"

(* --------------------------- _parse_ois_sheet -------------------------- *)

NoCols == [c2yr |-> None, c5yr |-> None, c10yr |-> None]

RECURSIVE ScanHeaderFirstWins(_, _, _)
ScanHeaderFirstWins(maturity_row, idx, acc) ==
    IF idx >= Len(maturity_row) THEN acc
    ELSE LET value == maturity_row[idx + 1]
             nxt == IF PyEq(value, 2) /\ acc.c2yr = None
                        THEN [acc EXCEPT !.c2yr = Num(idx)]
                    ELSE IF PyEq(value, 5) /\ acc.c5yr = None
                        THEN [acc EXCEPT !.c5yr = Num(idx)]
                    ELSE IF PyEq(value, 10) /\ acc.c10yr = None
                        THEN [acc EXCEPT !.c10yr = Num(idx)]
                    ELSE acc
         IN ScanHeaderFirstWins(maturity_row, idx + 1, nxt)

\* for idx, value in enumerate(maturity_row): if / elif / elif
RECURSIVE ScanHeader(_, _, _)
ScanHeader(maturity_row, idx, acc) ==
    IF idx >= Len(maturity_row) THEN acc
    ELSE LET value == maturity_row[idx + 1]
             nxt == IF PyEq(value, 2) THEN [acc EXCEPT !.c2yr = Num(idx)]
                    ELSE IF PyEq(value, 5) THEN [acc EXCEPT !.c5yr = Num(idx)]
                    ELSE IF PyEq(value, 10) THEN [acc EXCEPT !.c10yr = Num(idx)]
                    ELSE acc
         IN ScanHeader(maturity_row, idx + 1, nxt)

LocateColumnsFirstWins(maturity_row) == ScanHeaderFirstWins(maturity_row, 0, NoCols)

\* col_2yr = col_5yr = col_10yr = None, then the scan
LocateColumns(maturity_row) == ScanHeader(maturity_row, 0, NoCols)

\* col_2yr is None or col_5yr is None or col_10yr is None
ColumnMissing(c) == c.c2yr = None \/ c.c5yr = None \/ c.c10yr = None

\* row[col]: the cell at a resolved column. The code raises at line 84 before
\* it indexes with a column left None; such a column reads as None here.
CellAt(row, col) == IF col = None THEN None ELSE row[col.v + 1]

\* the dict appended to data_rows for one dated row
Observation(row, c) ==
    [date |-> row[1],
     rate_2yr |-> CellAt(row, c.c2yr),
     rate_5yr |-> CellAt(row, c.c5yr),
     rate_10yr |-> CellAt(row, c.c10yr)]

\* for row in sheet.iter_rows(min_row=6): keep the rows headed by a datetime
RECURSIVE CollectRows(_, _)
CollectRows(rows, c) ==
    IF rows = <<>> THEN <<>>
    ELSE LET rest == CollectRows(Tail(rows), c)
         IN IF IsDatetime(Head(rows)[1])
                THEN <<Observation(Head(rows), c)>> \o rest
                ELSE rest

\* One insertion of list.sort(key=date, reverse=True): x goes after every
\* element whose date is greater than or equal to its own.
RECURSIVE InsertDesc(_, _)
InsertDesc(x, s) ==
    IF s = <<>> THEN <<x>>
    ELSE IF Head(s).date.v >= x.date.v
        THEN <<Head(s)>> \o InsertDesc(x, Tail(s))
        ELSE <<x>> \o s

RECURSIVE InsertDescBeforeEqual(_, _)
InsertDescBeforeEqual(x, s) ==
    IF s = <<>> THEN <<x>>
    ELSE IF Head(s).date.v > x.date.v
        THEN <<Head(s)>> \o InsertDescBeforeEqual(x, Tail(s))
        ELSE <<x>> \o s

RECURSIVE InsertAsc(_, _)
InsertAsc(x, s) ==
    IF s = <<>> THEN <<x>>
    ELSE IF Head(s).date.v <= x.date.v
        THEN <<Head(s)>> \o InsertAsc(x, Tail(s))
        ELSE <<x>> \o s

RECURSIVE SortFrom(_, _)
SortFrom(s, acc) ==
    IF s = <<>> THEN acc ELSE SortFrom(Tail(s), InsertDesc(Head(s), acc))

RECURSIVE SortFromUnstable(_, _)
SortFromUnstable(s, acc) ==
    IF s = <<>> THEN acc
    ELSE SortFromUnstable(Tail(s), InsertDescBeforeEqual(Head(s), acc))

RECURSIVE SortFromAsc(_, _)
SortFromAsc(s, acc) ==
    IF s = <<>> THEN acc ELSE SortFromAsc(Tail(s), InsertAsc(Head(s), acc))

\* sort without reverse=True: ascending
SortByDateAsc(s) == SortFromAsc(s, <<>>)

\* sorted(...)[::-1]: descending, equal dates in reversed sheet order
SortByDateDescUnstable(s) == SortFromUnstable(s, <<>>)

\* data_rows.sort(key=lambda x: x['date'], reverse=True): descending and
\* stable (reverse=True keeps the original order of equal keys)
SortByDateDesc(s) == SortFrom(s, <<>>)

\* latest_rate - prev_rate can be evaluated: two numbers or two datetimes
CanSubtract(a, b) == (a.t = "num" /\ b.t = "num") \/ (a.t = "date" /\ b.t = "date")

calculate_change_truthy(latest_rate, prev_rate) ==
    IF latest_rate # None /\ prev_rate # None
          /\ latest_rate # Num(0) /\ prev_rate # Num(0)
        THEN IF latest_rate.t = "num"
                THEN Num((latest_rate.v - prev_rate.v) * 100)
                ELSE Delta((latest_rate.v - prev_rate.v) * 100)
        ELSE None

\* calculate_change, for operands that can be subtracted
calculate_change(latest_rate, prev_rate) ==
    IF latest_rate # None /\ prev_rate # None
        THEN IF latest_rate.t = "num"
                THEN Num((latest_rate.v - prev_rate.v) * 100)
                ELSE Delta((latest_rate.v - prev_rate.v) * 100)
        ELSE None

\* calculate_change raises TypeError: both operands present, no subtraction
ChangeRaises(latest_rate, prev_rate) ==
    latest_rate # None /\ prev_rate # None /\ ~CanSubtract(latest_rate, prev_rate)

RateComparison(latest_rate, prev_rate) ==
    [current |-> latest_rate,
     previous |-> prev_rate,
     change_bps |-> calculate_change(latest_rate, prev_rate)]

\* the result dict
Snapshot(latest, previous) ==
    [latest_date |-> latest.date,
     previous_date |-> previous.date,
     rates |-> [tn \in TenorSet |->
                  IF tn = "2yr" THEN RateComparison(latest.rate_2yr, previous.rate_2yr)
                  ELSE IF tn = "5yr" THEN RateComparison(latest.rate_5yr, previous.rate_5yr)
                  ELSE RateComparison(latest.rate_10yr, previous.rate_10yr)]]

MsgColumns == "Could not find 2yr, 5yr, or 10yr columns"
MsgInsufficient == "Insufficient data to calculate changes"
MsgOperand == "unsupported operand type(s) for -"

\* What a call returns or raises, with the locals it leaves behind.
Returned(value, c, rows) ==
    [raised |-> FALSE, exc |-> "", msg |-> "", value |-> value, cols |-> c, rows |-> rows]
Raised(exc, msg, c, rows) ==
    [raised |-> TRUE, exc |-> exc, msg |-> msg, value |-> None, cols |-> c, rows |-> rows]

\* the rest of _parse_ois_sheet once the columns are located
ExtractAndCompute(sh, c, sorted) ==
    IF Len(sorted) < 2 THEN Raised("ValueError", MsgInsufficient, c, sorted)
    ELSE LET latest == sorted[1]
             previous == sorted[2]
         IN IF \/ ChangeRaises(latest.rate_2yr, previous.rate_2yr)
               \/ ChangeRaises(latest.rate_5yr, previous.rate_5yr)
               \/ ChangeRaises(latest.rate_10yr, previous.rate_10yr)
                THEN Raised("TypeError", MsgOperand, c, sorted)
                ELSE Returned(Snapshot(latest, previous), c, sorted)

parse_ois_sheet_partial(sh) ==
    LET c == LocateColumns(sh.header)
    IN IF c = NoCols THEN Raised("ValueError", MsgColumns, c, <<>>)
       ELSE ExtractAndCompute(sh, c, SortByDateDesc(CollectRows(sh.rows, c)))

parse_ois_sheet(sh) ==
    LET c == LocateColumns(sh.header)
    IN IF ColumnMissing(c) THEN Raised("ValueError", MsgColumns, c, <<>>)
       ELSE ExtractAndCompute(sh, c, SortByDateDesc(CollectRows(sh.rows, c)))

(* ------------------------------ formatting ----------------------------- *)

ArrowUp == "up"
ArrowDown == "down"
ArrowNeutral == "neutral"

Abs(n) == IF n < 0 THEN -n ELSE n

\* A number of hundredths printed with two decimals: the sign character, the
\* digits before the point and the two digits after it.
NotAvailable == [kind |-> "N/A", sign |-> "", whole |-> 0, frac |-> 0, suffix |-> ""]
Fixed2(sign, n, suffix) ==
    [kind |-> "number", sign |-> sign, whole |-> Abs(n) \div 100,
     frac |-> Abs(n) % 100, suffix |-> suffix]

\* f"{x:.3f}": a rate in hundredths of a percent printed with three decimals
Fixed3(n) ==
    [sign |-> IF n < 0 THEN "-" ELSE "", whole |-> Abs(n) \div 100,
     frac |-> (Abs(n) % 100) * 10]

\* f"{change:+.2f} bps": "+" for a value that is not negative, "-" otherwise
SignedBps(n) == Fixed2(IF n < 0 THEN "-" ELSE "+", n, " bps")

\* f"{abs(change):.2f}"
UnsignedBps(n) == Fixed2("", Abs(n), "")

\* f"{x:>6.3f}" is evaluated without an exception: a float formats, a datetime
\* takes the spec as a strftime pattern; None and str raise.
Formattable(x) == x.t \in {"num", "date"}

FmtRate(x) == IF x.t = "num" THEN Fixed3(x.v) ELSE Fixed3(0)

FmtReturned(value) == [raised |-> FALSE, exc |-> "", value |-> value]
FmtRaised(exc) == [raised |-> TRUE, exc |-> exc, value |-> <<>>]

\* the exception the f-string of a rate raises
RateExc(x) == IF x.t = "text" THEN "ValueError" ELSE "TypeError"

\* "up" if change and change > 0 else "down" if change and change < 0 else "neutral"
text_arrow(change) ==
    IF change # None /\ change.v # 0 /\ change.v > 0 THEN ArrowUp
    ELSE IF change # None /\ change.v # 0 /\ change.v < 0 THEN ArrowDown
    ELSE ArrowNeutral

\* one pass of the loop of format_summary
summary_line(tenor, values) ==
    LET current == values.current
        previous == values.previous
        change == values.change_bps
    IN IF change # None /\ change.t # "num" THEN FmtRaised("TypeError")
       ELSE IF ~Formattable(current) THEN FmtRaised(RateExc(current))
       ELSE IF ~Formattable(previous) THEN FmtRaised(RateExc(previous))
       ELSE FmtReturned(
              [tenor |-> tenor,
               current |-> FmtRate(current),
               previous |-> FmtRate(previous),
               arrow |-> text_arrow(change),
               change_str |-> IF change # None THEN SignedBps(change.v)
                              ELSE NotAvailable])

html_change_signed(change) ==
    IF change # None
        THEN IF change.v > 0
                THEN [change_class |-> "positive", arrow |-> ArrowUp,
                      change_str |-> Fixed2(IF change.v < 0 THEN "-" ELSE "", change.v, "")]
             ELSE IF change.v < 0
                THEN [change_class |-> "negative", arrow |-> ArrowDown,
                      change_str |-> Fixed2(IF change.v < 0 THEN "-" ELSE "", change.v, "")]
             ELSE [change_class |-> "neutral", arrow |-> ArrowNeutral,
                   change_str |-> Fixed2("", change.v, "")]
        ELSE [change_class |-> "neutral", arrow |-> "", change_str |-> NotAvailable]

\* the if / elif / else of create_ois_html_email for a number or None
html_change(change) ==
    IF change # None
        THEN IF change.v > 0
                THEN [change_class |-> "positive", arrow |-> ArrowUp,
                      change_str |-> UnsignedBps(change.v)]
             ELSE IF change.v < 0
                THEN [change_class |-> "negative", arrow |-> ArrowDown,
                      change_str |-> UnsignedBps(change.v)]
             ELSE [change_class |-> "neutral", arrow |-> ArrowNeutral,
                   change_str |-> UnsignedBps(change.v)]
        ELSE [change_class |-> "neutral", arrow |-> "", change_str |-> NotAvailable]

\* one pass of the loop of create_ois_html_email
html_row(tenor, values) ==
    LET current == values.current
        previous == values.previous
        change == values.change_bps
    IN IF change # None /\ change.t # "num" THEN FmtRaised("TypeError")
       ELSE IF ~Formattable(current) THEN FmtRaised(RateExc(current))
       ELSE IF ~Formattable(previous) THEN FmtRaised(RateExc(previous))
       ELSE FmtReturned(
              [tenor |-> tenor,
               current |-> FmtRate(current),
               previous |-> FmtRate(previous),
               change |-> html_change(change)])

\* The loop over data['rates'].items(), in the dict's order 2yr, 5yr, 10yr,
\* given what each pass does: the first pass that raises ends the call.
RECURSIVE RenderAll(_, _, _)
RenderAll(passes, i, acc) ==
    IF i > Len(passes) THEN FmtReturned(acc)
    ELSE IF passes[i].raised THEN passes[i]
    ELSE RenderAll(passes, i + 1, Append(acc, passes[i].value))

format_summary(d) ==
    RenderAll([i \in 1..Len(Tenors) |-> summary_line(Tenors[i], d.rates[Tenors[i]])],
              1, <<>>)

create_ois_html_email(d) ==
    RenderAll([i \in 1..Len(Tenors) |-> html_row(Tenors[i], d.rates[Tenors[i]])],
              1, <<>>)

(* ------------------------------ EmailSender ---------------------------- *)

\* os.getenv of a variable: unset or empty (""), or set
EnvValues == {"", "set"}

SmtpOutcomes == {"sent", "SMTPAuthenticationError", "SMTPException", "Exception"}

NoSender == [smtp_user |-> "", smtp_password |-> "", to_email |-> ""]

\* send_email: (success, error_message)
send_email(sender, smtp) ==
    IF sender.smtp_user = "" \/ sender.smtp_password = ""
        THEN [success |-> FALSE, error |-> "SMTP credentials not configured"]
    ELSE IF sender.to_email = ""
        THEN [success |-> FALSE, error |-> "Recipient email not configured"]
    ELSE IF smtp = "sent" THEN [success |-> TRUE, error |-> ""]
    ELSE IF smtp = "SMTPAuthenticationError"
        THEN [success |-> FALSE,
              error |-> "SMTP authentication failed - check username/password"]
    ELSE IF smtp = "SMTPException" THEN [success |-> FALSE, error |-> "SMTP error: "]
    ELSE [success |-> FALSE, error |-> "Error sending email: "]

(* ------------------------------ fetch_ois_data ------------------------- *)

\* What the download and the workbook do: the sheet is read, or
\* requests raises, or the zip entry or the sheet is missing, or the bytes
\* are no zip or no workbook.
FetchOutcomes == {"ok", "RequestException", "KeyError", "Exception"}

\* fetch_ois_data: (data, error) with the locals of the parse; error is <<>>
\* for None, else the prefix and the exception's text.
fetch_ois_data(outcome, sh) ==
    IF outcome = "RequestException"
        THEN [data |-> None, error |-> <<"Network error: ", "">>,
              cols |-> NoCols, rows |-> <<>>]
    ELSE IF outcome = "KeyError"
        THEN [data |-> None, error |-> <<"Sheet not found: ", "">>,
              cols |-> NoCols, rows |-> <<>>]
    ELSE IF outcome = "Exception"
        THEN [data |-> None, error |-> <<"Error fetching OIS data: ", "">>,
              cols |-> NoCols, rows |-> <<>>]
    ELSE LET r == parse_ois_sheet(sh)
         IN IF r.raised
                THEN [data |-> None, error |-> <<"Error fetching OIS data: ", r.msg>>,
                      cols |-> r.cols, rows |-> r.rows]
                ELSE [data |-> r.value, error |-> <<>>, cols |-> r.cols, rows |-> r.rows]

(* ------------------------------ the sheets ----------------------------- *)

\* Cells of the maturity row: the three targets, another maturity, a blank
\* cell and the text "2".
HeaderCells == {Num(2), Num(5), Num(10), Num(1), None, Text(2)}

\* First cells of a data row: a datetime, a blank, a footnote, a number.
FirstCells == {Date(d) : d \in 1..MaxDate} \cup {None, Text(0), Num(1)}

\* Rate cells: a number, a blank, a text.
RateCells == {Num(r) : r \in 0..MaxRate} \cup {None, Text(0)}

SeqsUpTo(S, lo, hi) == UNION {[1..n -> S] : n \in lo..hi}

StandardHeader == <<None, Num(2), Num(5), Num(10)>>

\* A row of the given width: its first cell, then in column idx the rate
\* base + idx.
FilledRow(first, width, base) ==
    [i \in 1..width |-> IF i = 1 THEN first ELSE Num(base + i - 1)]

\* A maturity row above two dated rows, the later date first, with a
\* different rate in every column.
SheetOfHeader(h) ==
    [header |-> h,
     rows |-> <<FilledRow(Date(2), Len(h), 10), FilledRow(Date(1), Len(h), 20)>>]

\* Data rows with the given first cells under the standard maturity row; row
\* i carries the rates i, i + 1, i + 2.
SheetOfFirstCells(f) ==
    [header |-> StandardHeader,
     rows |-> [i \in 1..Len(f) |-> FilledRow(f[i], Len(StandardHeader), i - 1)]]

\* Two dated rows with the given rate cells under the standard maturity row.
SheetOfRates(d, a, b) ==
    [header |-> StandardHeader,
     rows |-> <<<<Date(d[1])>> \o a, <<Date(d[2])>> \o b>>]

\* The sheets of a run: any maturity row of up to MaxCols cells, or up to
\* MaxRows data rows with any first cells, or two dated rows in either order
\* with any rate cells.
InitSheet ==
    \/ \E h \in SeqsUpTo(HeaderCells, 1, MaxCols) : sheet = SheetOfHeader(h)
    \/ \E f \in SeqsUpTo(FirstCells, 0, MaxRows) : sheet = SheetOfFirstCells(f)
    \/ \E d \in {<<2, 1>>, <<1, 2>>}, a \in [1..3 -> RateCells], b \in [1..3 -> RateCells] :
         sheet = SheetOfRates(d, a, b)

(* ------------------------------ main ----------------------------------- *)

\* exit_status before the process ends; <<status>> once it has
Running == <<>>

Init ==
    /\ InitSheet
    /\ download = "pending"
    /\ pc = "fetch"
    /\ data = None
    /\ error = <<>>
    /\ cols = NoCols
    /\ data_rows = <<>>
    /\ text_summary = <<>>
    /\ email_sender = NoSender
    /\ html_body = <<>>
    /\ send_calls = 0
    /\ exit_status = Running

\* sys.exit(status), the return of main() (status 0) or an uncaught exception
\* (the interpreter exits with status 1)
Exit(status) == pc' = "exit" /\ exit_status' = <<status>>

MainFetchReturnsOnError ==
    /\ pc = "fetch"
    /\ \E outcome \in FetchOutcomes :
         LET r == fetch_ois_data(outcome, sheet)
         IN /\ download' = outcome
            /\ data' = r.data
            /\ error' = r.error
            /\ cols' = r.cols
            /\ data_rows' = r.rows
            /\ IF r.error # <<>> THEN Exit(0)
               ELSE IF r.data = None THEN Exit(1)
               ELSE pc' = "format" /\ UNCHANGED exit_status
    /\ UNCHANGED <<sheet, text_summary, email_sender, html_body, send_calls>>

\* data, error = fetcher.fetch_ois_data(); if error: exit(1); if not data: exit(1)
MainFetch ==
    /\ pc = "fetch"
    /\ \E outcome \in FetchOutcomes :
         LET r == fetch_ois_data(outcome, sheet)
         IN /\ download' = outcome
            /\ data' = r.data
            /\ error' = r.error
            /\ cols' = r.cols
            /\ data_rows' = r.rows
            /\ IF r.error # <<>> THEN Exit(1)
               ELSE IF r.data = None THEN Exit(1)
               ELSE pc' = "format" /\ UNCHANGED exit_status
    /\ UNCHANGED <<sheet, text_summary, email_sender, html_body, send_calls>>

\* text_summary = fetcher.format_summary(data); print
MainFormat ==
    /\ pc = "format"
    /\ LET r == format_summary(data)
       IN IF r.raised
              THEN Exit(1) /\ UNCHANGED text_summary
              ELSE /\ text_summary' = r.value
                   /\ pc' = "configure"
                   /\ UNCHANGED exit_status
    /\ UNCHANGED <<sheet, download, data, error, cols, data_rows, email_sender,
                   html_body, send_calls>>

MainConfigureNeedsPassword ==
    /\ pc = "configure"
    /\ \E u \in EnvValues, p \in EnvValues, t \in EnvValues :
         /\ email_sender' = [smtp_user |-> u, smtp_password |-> p, to_email |-> t]
         /\ IF u = "" \/ p = "" \/ t = "" THEN Exit(0)
            ELSE pc' = "send" /\ UNCHANGED exit_status
    /\ UNCHANGED <<sheet, download, data, error, cols, data_rows, text_summary,
                   html_body, send_calls>>

\* email_sender = EmailSender(), which reads the environment;
\* if not email_sender.smtp_user or not email_sender.to_email: return
MainConfigure ==
    /\ pc = "configure"
    /\ \E u \in EnvValues, p \in EnvValues, t \in EnvValues :
         /\ email_sender' = [smtp_user |-> u, smtp_password |-> p, to_email |-> t]
         /\ IF u = "" \/ t = "" THEN Exit(0)
            ELSE pc' = "send" /\ UNCHANGED exit_status
    /\ UNCHANGED <<sheet, download, data, error, cols, data_rows, text_summary,
                   html_body, send_calls>>

\* html_body = create_ois_html_email(data); success, error = send_email(...);
\* exit(1) unless success
MainSend ==
    /\ pc = "send"
    /\ LET h == create_ois_html_email(data)
       IN IF h.raised
              THEN Exit(1) /\ UNCHANGED <<html_body, send_calls, error>>
              ELSE /\ html_body' = h.value
                   /\ send_calls' = send_calls + 1
                   /\ \E smtp \in SmtpOutcomes :
                        LET r == send_email(email_sender, smtp)
                        IN /\ error' = IF r.success THEN <<>> ELSE <<r.error>>
                           /\ Exit(IF r.success THEN 0 ELSE 1)
    /\ UNCHANGED <<sheet, download, data, cols, data_rows, text_summary,
                   email_sender>>

Next == MainFetch \/ MainFormat \/ MainConfigure \/ MainSend

Spec == Init /\ [][Next]_vars

(* ------------------------ the inputs, read directly -------------------- *)

Target(tn) == IF tn = "2yr" THEN 2 ELSE IF tn = "5yr" THEN 5 ELSE 10

ResolvedCol(c, tn) == IF tn = "2yr" THEN c.c2yr ELSE IF tn = "5yr" THEN c.c5yr ELSE c.c10yr

\* the 0-based columns of the maturity row that hold the tenor's target
TargetCols(tn) == {i \in 0..(Len(sheet.header) - 1) : sheet.header[i + 1] = Num(Target(tn))}

MissingTenors == {tn \in TenorSet : TargetCols(tn) = {}}

MaxOf(S) == CHOOSE m \in S : \A x \in S : x <= m

LastTargetCol(tn) == MaxOf(TargetCols(tn))

\* the data rows headed by a date, by their position in the sheet
DatedRows == {i \in 1..Len(sheet.rows) : sheet.rows[i][1].t = "date"}

DateOf(i) == sheet.rows[i][1].v

\* row i comes before row j in "latest first, sheet order among equal dates"
Before(i, j) == DateOf(i) > DateOf(j) \/ (DateOf(i) = DateOf(j) /\ i < j)

Rank(i) == 1 + Cardinality({j \in DatedRows : Before(j, i)})

RowAtRank(k) == CHOOSE i \in DatedRows : Rank(i) = k

\* the cells of row i the snapshot is about
CellsOf(i) ==
    [date |-> sheet.rows[i][1],
     rate_2yr |-> sheet.rows[i][LastTargetCol("2yr") + 1],
     rate_5yr |-> sheet.rows[i][LastTargetCol("5yr") + 1],
     rate_10yr |-> sheet.rows[i][LastTargetCol("10yr") + 1]]

RateOf(i, tn) == sheet.rows[i][LastTargetCol(tn) + 1]

SheetRead == download = "ok"

Extracted == SheetRead /\ MissingTenors = {}

\* the core fails: the download, the column resolution, the extraction, the
\* change computation or the text summary
CoreFails ==
    \/ download # "ok"
    \/ MissingTenors # {}
    \/ Cardinality(DatedRows) < 2
    \/ \E tn \in TenorSet :
         RateOf(RowAtRank(1), tn).t # "num" \/ RateOf(RowAtRank(2), tn).t # "num"

FetchErrorPrefix == "Error fetching OIS data: "

(* ------------------------------ C1 ------------------------------------- *)

\* C1: when 2, 5 and 10 each occur in the maturity row, the column resolved
\* for each tenor is the greatest column whose cell is the number of that
\* tenor; a resolved column never holds anything but its tenor's number.
C1_LastMatchWins ==
    SheetRead =>
        /\ MissingTenors = {} =>
             \A tn \in TenorSet : ResolvedCol(cols, tn) = Num(LastTargetCol(tn))
        /\ \A tn \in TenorSet :
             ResolvedCol(cols, tn) # None => ResolvedCol(cols, tn).v \in TargetCols(tn)

\* a maturity row read with every target present and one of them twice
C1_Witness ==
    /\ SheetRead
    /\ MissingTenors = {}
    /\ \E tn \in TenorSet : Cardinality(TargetCols(tn)) > 1
    /\ \A tn \in TenorSet : ResolvedCol(cols, tn) = Num(LastTargetCol(tn))

(* ------------------------------ C2 ------------------------------------- *)

\* the tenors an error text names
TenorsNamed(msg) == IF msg = MsgColumns THEN {"2yr", "5yr", "10yr"} ELSE {}

\* C2 as stated: with a target missing from the maturity row the error names
\* exactly the unresolved tenors, and there is no snapshot.
C2_NamesUnresolved ==
    (SheetRead /\ MissingTenors # {}) =>
        /\ data = None
        /\ error # <<>>
        /\ TenorsNamed(error[2]) = MissingTenors

\* C2 amended: with a target missing from the maturity row the parse raises the
\* ValueError of the fixed text "Could not find 2yr, 5yr, or 10yr columns",
\* whichever tenors are unresolved; there is no snapshot, no row is
\* extracted, and the run ends with status 1 without a notification.
C2_FixedMessageNoSnapshot ==
    (SheetRead /\ MissingTenors # {}) =>
        /\ data = None
        /\ error = <<FetchErrorPrefix, MsgColumns>>
        /\ data_rows = <<>>
        /\ \A tn \in TenorSet : (ResolvedCol(cols, tn) = None) <=> (tn \in MissingTenors)
        /\ pc = "exit" /\ exit_status = <<1>> /\ send_calls = 0

\* a maturity row read with exactly one target missing
C2_Witness ==
    /\ SheetRead
    /\ Cardinality(MissingTenors) = 1
    /\ error = <<FetchErrorPrefix, MsgColumns>>
    /\ data = None

(* ------------------------------ C3 ------------------------------------- *)

\* C3: with the columns resolved, the parse fails with "Insufficient data to
\* calculate changes" exactly when fewer than two data rows are headed by a
\* date, and then there is no snapshot.
C3_InsufficientData ==
    Extracted =>
        /\ (Cardinality(DatedRows) < 2) <=> (error = <<FetchErrorPrefix, MsgInsufficient>>)
        /\ Cardinality(DatedRows) < 2 => (data = None /\ pc = "exit" /\ exit_status = <<1>>)

\* one dated row among rows headed by a blank, a text or a number
C3_Witness ==
    /\ Extracted
    /\ Cardinality(DatedRows) = 1
    /\ Len(sheet.rows) >= 3
    /\ error = <<FetchErrorPrefix, MsgInsufficient>>

(* ------------------------------ C4 ------------------------------------- *)

DatesWithout(i) == {DateOf(j) : j \in DatedRows \ {i}}

\* C4: latest_date is the greatest date of the dated rows and previous_date
\* the greatest date of the dated rows without one row of the greatest date,
\* in any row order.
C4_LatestAndPrevious ==
    data # None =>
        /\ data.latest_date = Date(MaxOf({DateOf(i) : i \in DatedRows}))
        /\ \E i \in DatedRows :
             /\ Date(DateOf(i)) = data.latest_date
             /\ data.previous_date = Date(MaxOf(DatesWithout(i)))

\* rows out of date order, with an undated row and a gap of two days between
\* the two latest dates
C4_Witness ==
    /\ data # None
    /\ \E i, j \in DatedRows : i < j /\ DateOf(i) < DateOf(j)
    /\ \E i \in 1..Len(sheet.rows) : i \notin DatedRows
    /\ data.latest_date.v - data.previous_date.v >= 2

(* ------------------------------ C5 ------------------------------------- *)

\* (latest - previous) * 100 of two cells, None when either is blank
ExpectedChange(l, p) ==
    IF l = None \/ p = None THEN None
    ELSE IF l.t = "num" /\ p.t = "num" THEN Num((l.v - p.v) * 100)
    ELSE Delta((l.v - p.v) * 100)

\* C5: for each tenor, current and previous are the cells of the latest and
\* the previous observation row at the tenor's column, unmodified, and
\* change_bps is (current - previous) * 100 when both are present and None
\* when either is absent.
C5_ChangeComputer ==
    data # None =>
        \A tn \in TenorSet :
            LET l == RateOf(RowAtRank(1), tn)
                p == RateOf(RowAtRank(2), tn)
            IN /\ data.rates[tn].current = l
               /\ data.rates[tn].previous = p
               /\ data.rates[tn].change_bps = ExpectedChange(l, p)
               /\ (data.rates[tn].change_bps = None) <=> (l = None \/ p = None)

\* a snapshot with a change computed from a rate of 0 and a change left absent
C5_Witness ==
    /\ data # None
    /\ \E tn \in TenorSet :
         /\ data.rates[tn].current = Num(0)
         /\ data.rates[tn].previous.t = "num"
         /\ data.rates[tn].change_bps.t = "num"
         /\ data.rates[tn].change_bps.v < 0
    /\ \E tn \in TenorSet :
         /\ data.rates[tn].previous = None
         /\ data.rates[tn].current.t = "num"
         /\ data.rates[tn].change_bps = None

(* ------------------------------ C6 ------------------------------------- *)

\* C6: in a run whose core fails, send_email is never reached (the run is at
\* the format step or has ended, no call is counted) and the run, once
\* ended, has a non-zero exit status.
C6_NoSendAfterCoreFailure ==
    (pc # "fetch" /\ CoreFails) =>
        /\ send_calls = 0
        /\ html_body = <<>>
        /\ pc \in {"format", "exit"}
        /\ pc = "format" => format_summary(data).raised
        /\ pc = "exit" => exit_status = <<1>>

\* a run ended by the text summary raising on a snapshot the parse returned
C6_Witness ==
    /\ pc = "exit"
    /\ CoreFails
    /\ data # None
    /\ exit_status = <<1>>
    /\ send_calls = 0

(* ------------------------------ C7 ------------------------------------- *)

\* the core succeeded: the snapshot is computed and the summary rendered
CoreSucceeded == data # None /\ text_summary # <<>>

AbsentChanges == {tn \in TenorSet : data.rates[tn].change_bps = None}

LineOf(lines, tn) == CHOOSE x \in {lines[i] : i \in 1..Len(lines)} : x.tenor = tn

\* C8: for a snapshot of the parser in which a tenor's change_bps is absent,
\* format_summary and create_ois_html_email complete and render that tenor's
\* change as "N/A" with the neutral indicator and the neutral category.
C8_AbsentChangeRendersNA ==
    (pc \notin {"fetch", "format"} /\ data # None /\ AbsentChanges # {}) =>
        /\ text_summary # <<>>
        /\ ~create_ois_html_email(data).raised
        /\ \A tn \in AbsentChanges :
             /\ LineOf(text_summary, tn).change_str = NotAvailable
             /\ LineOf(text_summary, tn).arrow = ArrowNeutral
             /\ LineOf(create_ois_html_email(data).value, tn).change.change_str
                  = NotAvailable
             /\ LineOf(create_ois_html_email(data).value, tn).change.change_class
                  = "neutral"

(* ------------------------------ C9 ------------------------------------- *)

ExpectedArrow(c) == IF c > 0 THEN ArrowUp ELSE IF c < 0 THEN ArrowDown ELSE ArrowNeutral

ExpectedClass(c) == IF c > 0 THEN "positive" ELSE IF c < 0 THEN "negative" ELSE "neutral"

\* the change of a tenor of the snapshot, in hundredths of a basis point
ChangeOf(tn) == data.rates[tn].change_bps.v

\* C9: for every present change the text line and the HTML row carry the
\* indicator of the three-way comparison with 0; the text shows the number
\* to two decimals with "+" before a positive and "-" before a negative value
\* and " bps" after it; the HTML row has the category of the same comparison
\* and shows the absolute value without a sign.
C9_SignPolicy ==
    /\ text_summary # <<>> =>
         \A tn \in TenorSet :
             LET line == LineOf(text_summary, tn)
                 c == ChangeOf(tn)
             IN /\ data.rates[tn].change_bps.t = "num"
                /\ line.arrow = ExpectedArrow(c)
                /\ line.change_str.kind = "number"
                /\ c > 0 => line.change_str.sign = "+"
                /\ c < 0 => line.change_str.sign = "-"
                /\ line.change_str.whole * 100 + line.change_str.frac
                     = (IF c < 0 THEN -c ELSE c)
                /\ line.change_str.suffix = " bps"
    /\ html_body # <<>> =>
         \A tn \in TenorSet :
             LET row == LineOf(html_body, tn)
                 c == ChangeOf(tn)
             IN /\ row.change.arrow = ExpectedArrow(c)
                /\ row.change.arrow = LineOf(text_summary, tn).arrow
                /\ row.change.change_class = ExpectedClass(c)
                /\ row.change.change_str.kind = "number"
                /\ row.change.change_str.sign = ""
                /\ row.change.change_str.whole * 100 + row.change.change_str.frac
                     = (IF c < 0 THEN -c ELSE c)

\* both renderings made of a snapshot with a rise, a fall and no change
C9_Witness ==
    /\ text_summary # <<>>
    /\ html_body # <<>>
    /\ \E tn \in TenorSet :
         /\ ChangeOf(tn) < 0
         /\ LineOf(text_summary, tn).change_str.sign = "-"
         /\ LineOf(html_body, tn).change.change_class = "negative"
    /\ \E tn \in TenorSet : ChangeOf(tn) > 0
    /\ \E tn \in TenorSet : ChangeOf(tn) = 0

(* ------------------------------ C10 ------------------------------------ *)

LatestDate == MaxOf({DateOf(i) : i \in DatedRows})

RowsOfLatestDate == {i \in DatedRows : DateOf(i) = LatestDate}

\* C10: after the sort the observations are in non-increasing date order with
\* the rows of equal date in sheet order: the observation at each position is
\* the dated row of that rank; so when the greatest date heads several rows,
\* the latest observation is the first of them in the sheet and the previous
\* one the next of them.
C10_StableDescendingSort ==
    Extracted =>
        /\ Len(data_rows) = Cardinality(DatedRows)
        /\ \A i \in DatedRows : data_rows[Rank(i)] = CellsOf(i)
        /\ \A k \in 1..(Len(data_rows) - 1) : data_rows[k].date.v >= data_rows[k + 1].date.v
        /\ Cardinality(RowsOfLatestDate) > 1 =>
             LET first == CHOOSE i \in RowsOfLatestDate :
                              \A j \in RowsOfLatestDate : i <= j
                 second == CHOOSE i \in RowsOfLatestDate \ {first} :
                              \A j \in RowsOfLatestDate \ {first} : i <= j
             IN /\ data_rows[1] = CellsOf(first)
                /\ data_rows[2] = CellsOf(second)
                /\ data # None =>
                     \A tn \in TenorSet :
                         /\ data.rates[tn].current = RateOf(first, tn)
                         /\ data.rates[tn].previous = RateOf(second, tn)

\* a snapshot of a sheet whose greatest date heads two rows of different
\* rates, after a row of an earlier date
C10_Witness ==
    /\ data # None
    /\ Cardinality(RowsOfLatestDate) > 1
    /\ \E i \in DatedRows : DateOf(i) < LatestDate /\ \A j \in RowsOfLatestDate : i < j
    /\ data.rates["2yr"].current # data.rates["2yr"].previous
    /\ data.latest_date = data.previous_date

====
